---- MODULE Spec2Model ----
(***************************************************************************)
(* Model of pallets/mining/src/mining.rs: the per-round issuance           *)
(* computation round_issuance_range, the Range value it returns and the    *)
(* MiningResourceRateInfo configuration record with its setters.           *)
(*                                                                         *)
(* u64 and u32 values keep their full width.  A machine integer is a       *)
(* little-endian sequence of base-2^8 limbs (8 limbs for u64, 4 for u32),  *)
(* so that checked_mul overflows exactly where the hardware does.          *)
(***************************************************************************)
EXTENDS Integers, Sequences, FiniteSets

VARIABLES
    config,            \* the MiningResourceRateInfo owned by the caller
    total_land_units,  \* what T::EstateHandler::get_total_land_units() returns
    round_length,      \* <Pallet<T>>::issuance_round().length
    out,               \* outcome of the last observed operation that yields a Range
    ctor,              \* history: the arguments new() was called with
    last_set           \* history: per field, the argument of its last setter call

vars == <<config, total_land_units, round_length, out, ctor, last_set>>

----------------------------------------------------------------------------
(* Machine integers *)

Base == 2^8
U64Limbs == 8
U32Limbs == 4

\* The limbs of a natural n < 2^31, on len limbs.
ToLimbs(n, len) ==
    [i \in 1..len |-> IF i > 4 THEN 0 ELSE (n \div (Base^(i-1))) % Base]

U64(n) == ToLimbs(n, U64Limbs)
U32(n) == ToLimbs(n, U32Limbs)

U64_MAX == [i \in 1..U64Limbs |-> Base - 1]
U32_MAX == [i \in 1..U32Limbs |-> Base - 1]

IsZero(a) == \A i \in 1..Len(a) : a[i] = 0

\* a on len >= Len(a) limbs: the value is unchanged.
ZeroExtend(a, len) == [i \in 1..len |-> IF i <= Len(a) THEN a[i] ELSE 0]

\* u32 -> u64 (From<u32> for u64)
into(a) == ZeroExtend(a, U64Limbs)

RECURSIVE LtFrom(_, _, _)
LtFrom(a, b, i) ==
    IF i = 0 THEN FALSE
    ELSE IF a[i] # b[i] THEN a[i] < b[i]
    ELSE LtFrom(a, b, i - 1)

\* a < b and a <= b for two integers on the same number of limbs
Lt(a, b) == LtFrom(a, b, Len(a))
Le(a, b) == ~Lt(b, a)
Ge(a, b) == ~Lt(a, b)

RECURSIVE ColumnSum(_, _, _, _)
\* The sum of the limb products a[j] * b[k - j + 1] for j >= i: column k of
\* the schoolbook product.
ColumnSum(a, b, k, i) ==
    IF i > Len(a) \/ i > k THEN 0
    ELSE (IF k - i + 1 <= Len(b) THEN a[i] * b[k - i + 1] ELSE 0)
             + ColumnSum(a, b, k, i + 1)

RECURSIVE MulFrom(_, _, _, _)
MulFrom(a, b, k, carry) ==
    IF k > Len(a) + Len(b) THEN <<>>
    ELSE LET t == ColumnSum(a, b, k, 1) + carry
         IN <<t % Base>> \o MulFrom(a, b, k + 1, t \div Base)

\* The exact product of a and b, on Len(a) + Len(b) limbs.
MulWide(a, b) == MulFrom(a, b, 1, 0)

RECURSIVE AddFrom(_, _, _, _)
AddFrom(a, b, k, carry) ==
    IF k > Len(a) THEN <<carry>>
    ELSE LET t == a[k] + b[k] + carry
         IN <<t % Base>> \o AddFrom(a, b, k + 1, t \div Base)

\* The exact sum of a and b (same number of limbs), on one limb more.
AddWide(a, b) == AddFrom(a, b, 1, 0)

RECURSIVE SubFrom(_, _, _, _)
SubFrom(a, b, k, borrow) ==
    IF k > Len(a) THEN <<>>
    ELSE LET t == a[k] - b[k] - borrow
         IN <<(t + Base) % Base>> \o SubFrom(a, b, k + 1, IF t < 0 THEN 1 ELSE 0)

\* a - b for a >= b (same number of limbs).
SubLimbs(a, b) == SubFrom(a, b, 1, 0)

RECURSIVE DivFrom(_, _, _, _)
\* The quotient limbs 1..i, the limbs above i having left remainder rem.
DivFrom(a, d, i, rem) ==
    IF i = 0 THEN <<>>
    ELSE LET cur == rem * Base + a[i]
         IN Append(DivFrom(a, d, i - 1, cur % d), cur \div d)

\* floor(a / d) for a divisor 0 < d < 2^23, long division from the top limb.
DivSmall(a, d) == DivFrom(a, d, Len(a), 0)

\* The value of a, for a < 2^24 (the upper limbs are zero).
ToNat(a) == a[1] + a[2] * Base + a[3] * Base * Base

----------------------------------------------------------------------------
(* Option<T> *)

None == [some |-> FALSE]
Some(v) == [some |-> TRUE, val |-> v]

unwrap_or(opt, default) == IF opt.some THEN opt.val ELSE default


\* u64::checked_mul: None when the exact product does not fit 64 bits.
checked_mul(a, b) ==
    LET wide == MulWide(a, b)
    IN IF \A i \in (U64Limbs + 1)..(2 * U64Limbs) : wide[i] = 0
       THEN Some(SubSeq(wide, 1, U64Limbs))
       ELSE None

\* u64::checked_div: None when the divisor is zero.  The only divisor the
\* code passes is 100u64; DivSmall covers every divisor below 2^23.
checked_div(a, d) ==
    IF IsZero(d) THEN None ELSE Some(DivSmall(a, ToNat(d)))

\* A call either panics or returns a value.
Panic == [panicked |-> TRUE]
Returned(v) == [panicked |-> FALSE, val |-> v]

----------------------------------------------------------------------------
(* mining.rs *)

SECONDS_PER_YEAR == 31557600
SECONDS_PER_BLOCK == 12
BLOCKS_PER_YEAR == SECONDS_PER_YEAR \div SECONDS_PER_BLOCK

\* BLOCKS_PER_YEAR / blocks_per_round on u32: a zero divisor panics.
\* BLOCKS_PER_YEAR < 2^24, so a length with a non-zero top limb gives 0.
rounds_per_year ==
    LET blocks_per_round == round_length
    IN IF IsZero(blocks_per_round) THEN Panic
       ELSE IF blocks_per_round[U32Limbs] # 0 THEN Returned(U32(0))
       ELSE Returned(U32(BLOCKS_PER_YEAR \div ToNat(blocks_per_round)))

Range(mn, id, mx, land, metaverse) ==
    [min |-> mn, ideal |-> id, max |-> mx,
     land_allocation |-> land, metaverse_allocation |-> metaverse]

\* Variant: the product is spread over the rounds of a year.
issuance_per_round_annualised(cfg) ==
    LET product == unwrap_or(checked_mul(total_land_units, cfg.ratio), U64(0))
        rounds == rounds_per_year
    IN IF rounds.panicked \/ IsZero(rounds.val) THEN U64(0)
       ELSE DivSmall(product, ToNat(rounds.val))

\* Variant: an overflowing product saturates to u64::MAX.
issuance_per_round_saturating(cfg) ==
    unwrap_or(checked_mul(total_land_units, cfg.ratio), U64_MAX)

\* Variant: checked_add in place of checked_mul.
issuance_per_round_checked_add(cfg) ==
    LET sum == AddWide(total_land_units, cfg.ratio)
    IN IF sum[U64Limbs + 1] = 0 THEN SubSeq(sum, 1, U64Limbs) ELSE U64(0)

\* total_land_unit_circulating.checked_mul(minting_ratio).unwrap_or(Zero::zero())
issuance_per_round(cfg) ==
    LET minting_ratio == cfg.ratio
        total_land_unit_circulating == total_land_units
    IN unwrap_or(checked_mul(total_land_unit_circulating, minting_ratio), U64(0))

\* Variant: the division by 100 comes before the multiplication.
land_allocation_divide_first(issuance, cfg) ==
    LET hundredth == DivSmall(issuance, 100)
    IN Some(unwrap_or(checked_mul(hundredth, into(cfg.land_reward)), hundredth))

\* issuance.checked_mul(land_reward.into()).unwrap_or(issuance).checked_div(100u64)
land_allocation(issuance, cfg) ==
    checked_div(unwrap_or(checked_mul(issuance, into(cfg.land_reward)), issuance),
                U64(100))

\* Variant: on overflow the whole issuance is the allocation, undivided.
metaverse_allocation_whole_on_overflow(issuance, cfg) ==
    LET product == checked_mul(issuance, into(cfg.metaverse_reward))
    IN IF product.some THEN checked_div(product.val, U64(100)) ELSE Some(issuance)

\* issuance.checked_mul(metaverse_reward.into()).unwrap_or(issuance).checked_div(100u64)
metaverse_allocation(issuance, cfg) ==
    checked_div(unwrap_or(checked_mul(issuance, into(cfg.metaverse_reward)), issuance),
                U64(100))

\* Variant: the issuance of the previous observed call is carried into this one.
round_issuance_range_carrying(cfg) ==
    LET total_round_per_year == rounds_per_year
        carried == IF out.op = "round_issuance_range" /\ ~out.res.panicked
                   THEN out.res.val.ideal ELSE U64(0)
        issuance == SubSeq(AddWide(issuance_per_round(cfg), carried), 1, U64Limbs)
        land == land_allocation(issuance, cfg)
        metaverse == metaverse_allocation(issuance, cfg)
    IN IF total_round_per_year.panicked THEN Panic
       ELSE IF ~land.some THEN Panic
       ELSE IF ~metaverse.some THEN Panic
       ELSE Returned(Range(issuance, issuance, issuance, land.val, metaverse.val))

\* The call panics where rounds_per_year divides by zero or an unwrap() meets
\* None; otherwise it returns the Range.
round_issuance_range(cfg) ==
    LET total_round_per_year == rounds_per_year
        issuance == issuance_per_round(cfg)
        land == land_allocation(issuance, cfg)
        metaverse == metaverse_allocation(issuance, cfg)
    IN IF total_round_per_year.panicked THEN Panic
       ELSE IF ~land.some THEN Panic
       ELSE IF ~metaverse.some THEN Panic
       ELSE Returned(Range(issuance, issuance, issuance, land.val, metaverse.val))

\* Variant: the second comparison is turned around.
is_valid_swapped(self) == Ge(self.max, self.ideal) /\ Ge(self.min, self.ideal)

is_valid(self) == Ge(self.max, self.ideal) /\ Ge(self.ideal, self.min)

Range_from(other) == Range(other, other, other, other, other)

new(ratio, land_reward, metaverse_reward) ==
    [ratio |-> ratio, land_reward |-> land_reward, metaverse_reward |-> metaverse_reward]

set_ratio(self, ratio) == [self EXCEPT !.ratio = ratio]

\* Variant: a percentage above 100 is clamped to 100.
set_land_reward_clamped(self, land_reward) ==
    [self EXCEPT !.land_reward = IF Lt(U32(100), land_reward) THEN U32(100) ELSE land_reward]

set_land_reward(self, land_reward) == [self EXCEPT !.land_reward = land_reward]

set_metaverse_reward(self, metaverse_reward) ==
    [self EXCEPT !.metaverse_reward = metaverse_reward]

----------------------------------------------------------------------------
(* Inputs *)

\* How far around each boundary value the sampled inputs reach.
MaxDelta == 1

Pow2_32 == [i \in 1..U64Limbs |-> IF i = 5 THEN 1 ELSE 0]

Above(a) == {SubSeq(AddWide(a, ToLimbs(k, Len(a))), 1, Len(a)) : k \in 0..MaxDelta}
Below(a) == {SubLimbs(a, ToLimbs(k, Len(a))) : k \in 0..MaxDelta}
Around(a) == Above(a) \cup Below(a)

\* u64 land-unit readings: small values, the test's 2_000, 2^32, the largest
\* issuance whose product with 100 (and with 20) still fits, and u64::MAX.
LandSamples ==
    Above(U64(0)) \cup {U64(2000)} \cup Above(Pow2_32)
        \cup Around(DivSmall(U64_MAX, 100)) \cup Around(DivSmall(U64_MAX, 20))
        \cup Below(U64_MAX)

RatioSamples == Above(U64(0)) \cup {U64(10)} \cup Above(Pow2_32) \cup Below(U64_MAX)

RewardSamples ==
    {U32(0), U32(20), U32(50), U32(80), U32(100), U32(101)} \cup Below(U32_MAX)

LengthSamples == {U32(0), U32(100), U32_MAX}

\* The small input sets of the state machine.
RatioArgs == {U64(10), U64_MAX}
LandRewardArgs == {U32(20), U32(150)}
MetaverseRewardArgs == {U32(0), U32(80)}
LandReadings == {U64(1), U64(2000)}
RoundLengths == {U32(0), U32(100)}
\* 255 and 256 differ in which limb carries the value.
FieldSamples == {U64(255), U64(256)}

----------------------------------------------------------------------------
(* State machine *)

NoOutcome == [op |-> "none"]

NeverSet == [ratio |-> None, land_reward |-> None, metaverse_reward |-> None]

\* MiningResourceRateInfo::new with arguments drawn from the small sets, the
\* collaborators in any of their states, nothing computed yet.
Init ==
    /\ ctor \in {new(r, l, m) : r \in RatioArgs, l \in LandRewardArgs,
                                 m \in MetaverseRewardArgs}
    /\ config = ctor
    /\ last_set = NeverSet
    /\ total_land_units \in LandReadings
    /\ round_length \in RoundLengths
    /\ out = NoOutcome

\* The same, over the boundary samples.
InitCalc ==
    /\ ctor \in {new(r, l, m) : r \in RatioSamples, l \in RewardSamples,
                                 m \in RewardSamples}
    /\ config = ctor
    /\ last_set = NeverSet
    /\ total_land_units \in LandSamples
    /\ round_length \in LengthSamples
    /\ out = NoOutcome

SetRatio ==
    \E ratio \in RatioArgs :
        /\ config' = set_ratio(config, ratio)
        /\ last_set' = [last_set EXCEPT !.ratio = Some(ratio)]
        /\ UNCHANGED <<total_land_units, round_length, out, ctor>>

SetLandReward ==
    \E land_reward \in LandRewardArgs :
        /\ config' = set_land_reward(config, land_reward)
        /\ last_set' = [last_set EXCEPT !.land_reward = Some(land_reward)]
        /\ UNCHANGED <<total_land_units, round_length, out, ctor>>

SetMetaverseReward ==
    \E metaverse_reward \in MetaverseRewardArgs :
        /\ config' = set_metaverse_reward(config, metaverse_reward)
        /\ last_set' = [last_set EXCEPT !.metaverse_reward = Some(metaverse_reward)]
        /\ UNCHANGED <<total_land_units, round_length, out, ctor>>

\* The Estate collaborator's count of land units changes.
EstateUpdate ==
    \E units \in LandReadings :
        /\ total_land_units' = units
        /\ UNCHANGED <<config, round_length, out, ctor, last_set>>

\* The Round collaborator's round length changes.
RoundUpdate ==
    \E length \in RoundLengths :
        /\ round_length' = length
        /\ UNCHANGED <<config, total_land_units, out, ctor, last_set>>

SameInputs(o) ==
    /\ o.op = "round_issuance_range"
    /\ o.config = config
    /\ o.land = total_land_units
    /\ o.length = round_length

\* round_issuance_range(config) is called and its outcome observed.  repeat
\* records that the previous observed call had the same inputs.
Compute ==
    /\ out' = [op |-> "round_issuance_range",
               config |-> config,
               land |-> total_land_units,
               length |-> round_length,
               repeat |-> SameInputs(out),
               res |-> round_issuance_range(config)]
    /\ UNCHANGED <<config, total_land_units, round_length, ctor, last_set>>

\* round_issuance_range(config) is called and its outcome dropped.
ComputeDiscard ==
    /\ round_issuance_range(config).panicked \in BOOLEAN
    /\ UNCHANGED vars

\* Range::from(other)
FromValue ==
    \E other \in FieldSamples :
        /\ out' = [op |-> "from", res |-> Returned(Range_from(other))]
        /\ UNCHANGED <<config, total_land_units, round_length, ctor, last_set>>

\* A Range built field by field (its fields are public).
RangeLiteral ==
    \E mn \in FieldSamples, id \in FieldSamples, mx \in FieldSamples :
        /\ out' = [op |-> "literal", res |-> Returned(Range(mn, id, mx, U64(0), U64(0)))]
        /\ UNCHANGED <<config, total_land_units, round_length, ctor, last_set>>

Next ==
    \/ SetRatio
    \/ SetLandReward
    \/ SetMetaverseReward
    \/ EstateUpdate
    \/ RoundUpdate
    \/ Compute
    \/ ComputeDiscard
    \/ FromValue
    \/ RangeLiteral

Spec == Init /\ [][Next]_vars

\* The function is applied once to each sampled input.
NextCalc == out = NoOutcome /\ Compute

SpecCalc == InitCalc /\ [][NextCalc]_vars

----------------------------------------------------------------------------
(* Properties *)

\* Exact arithmetic the properties are stated in, on wide limb sequences.
Fits64(w) == Le(w, ZeroExtend(U64_MAX, Len(w)))
Low64(w) == SubSeq(w, 1, U64Limbs)

\* q = floor(w / d): q * d <= w < q * d + d, for a u64 q, a 16-limb w and a
\* small divisor d.
IsFloorOf(q, w, d) ==
    LET qd == MulWide(q, U64(d))
    IN /\ Le(qd, w)
       /\ Lt(ZeroExtend(w, Len(w) + 1), AddWide(qd, ToLimbs(d, Len(qd))))

\* a <= b read off the highest limb in which a and b differ.
NumLe(a, b) ==
    LET differ == {i \in 1..Len(a) : a[i] # b[i]}
    IN \/ differ = {}
       \/ \E i \in differ : (\A j \in differ : j <= i) /\ a[i] < b[i]

Called == out.op = "round_issuance_range"
CallReturned == Called /\ ~out.res.panicked

\* total_land_units * ratio of the observed call, exact.
ExactIssuance == MulWide(out.config.ratio, out.land)
\* issuance * reward of the observed call, exact (where the issuance fits).
ExactLandProduct == MulWide(into(out.config.land_reward), Low64(ExactIssuance))
ExactMetaverseProduct == MulWide(into(out.config.metaverse_reward), Low64(ExactIssuance))

\* C1: where total_land_units * ratio fits in u64 and issuance * land_reward
\* overflows, the returned land_allocation equals the issuance; likewise
\* metaverse_allocation with metaverse_reward.
C1_AllocationOverflowGivesIssuance ==
    (CallReturned /\ Fits64(ExactIssuance)) =>
        /\ ~Fits64(ExactLandProduct) =>
               out.res.val.land_allocation = Low64(ExactIssuance)
        /\ ~Fits64(ExactMetaverseProduct) =>
               out.res.val.metaverse_allocation = Low64(ExactIssuance)

\* C2: every call of round_issuance_range returns a Range; none panics,
\* whatever the config, the land units and the round length (0 included).
C2_NeverPanics == Called => ~out.res.panicked

\* C3: where ratio * total_land_units fits in u64, the returned min, ideal and
\* max all equal that product.
C3_IssuanceIsProduct ==
    (CallReturned /\ Fits64(ExactIssuance)) =>
        /\ ZeroExtend(out.res.val.min, 2 * U64Limbs) = ExactIssuance
        /\ ZeroExtend(out.res.val.ideal, 2 * U64Limbs) = ExactIssuance
        /\ ZeroExtend(out.res.val.max, 2 * U64Limbs) = ExactIssuance

C3_Witness ==
    /\ CallReturned
    /\ out.config.ratio = U64(10)
    /\ out.land = U64(2000)
    /\ out.res.val.min = U64(20000)
    /\ out.res.val.ideal = U64(20000)
    /\ out.res.val.max = U64(20000)

\* C4: where ratio * total_land_units overflows u64, the returned min, ideal
\* and max are 0 and so are both allocations.
C4_BaseOverflowGivesZero ==
    (CallReturned /\ ~Fits64(ExactIssuance)) =>
        /\ out.res.val.min = U64(0)
        /\ out.res.val.ideal = U64(0)
        /\ out.res.val.max = U64(0)
        /\ out.res.val.land_allocation = U64(0)
        /\ out.res.val.metaverse_allocation = U64(0)

C4_Witness ==
    /\ CallReturned
    /\ out.config.ratio = U64_MAX
    /\ out.land = Pow2_32
    /\ out.config.land_reward = U32(20)
    /\ out.res.val.ideal = U64(0)

\* C5: where neither total_land_units * ratio nor issuance * reward overflows,
\* land_allocation = floor(issuance * land_reward / 100) and
\* metaverse_allocation = floor(issuance * metaverse_reward / 100).
C5_AllocationIsFloor ==
    (CallReturned /\ Fits64(ExactIssuance)) =>
        /\ Fits64(ExactLandProduct) =>
               IsFloorOf(out.res.val.land_allocation, ExactLandProduct, 100)
        /\ Fits64(ExactMetaverseProduct) =>
               IsFloorOf(out.res.val.metaverse_allocation, ExactMetaverseProduct, 100)

C5_Witness ==
    /\ CallReturned
    /\ out.config.ratio = U64(10)
    /\ out.land = U64(2000)
    /\ out.config.land_reward = U32(20)
    /\ out.config.metaverse_reward = U32(80)
    /\ out.res.val.land_allocation = U64(4000)
    /\ out.res.val.metaverse_allocation = U64(16000)

\* C8: a config with ratio 0 makes every field of the returned Range 0,
\* whatever the land units and the rewards.
C8_ZeroRatioGivesZero ==
    (CallReturned /\ out.config.ratio = U64(0)) =>
        out.res.val = Range(U64(0), U64(0), U64(0), U64(0), U64(0))

C8_Witness ==
    /\ CallReturned
    /\ out.config.ratio = U64(0)
    /\ out.land = U64_MAX
    /\ out.config.land_reward = U32_MAX
    /\ out.res.val.land_allocation = U64(0)

\* C10: with land_reward <= 100 and metaverse_reward <= 100 each allocation is
\* at most ideal on every path, and where the two rewards sum to 100 the two
\* allocations together are at most ideal.
C10_AllocationsWithinIssuance ==
    (/\ CallReturned
     /\ Le(out.config.land_reward, U32(100))
     /\ Le(out.config.metaverse_reward, U32(100))) =>
        /\ Le(out.res.val.land_allocation, out.res.val.ideal)
        /\ Le(out.res.val.metaverse_allocation, out.res.val.ideal)
        /\ (AddWide(out.config.land_reward, out.config.metaverse_reward)
                = ToLimbs(100, U32Limbs + 1)) =>
               Le(AddWide(out.res.val.land_allocation, out.res.val.metaverse_allocation),
                  ZeroExtend(out.res.val.ideal, U64Limbs + 1))

\* The allocation product overflows for both rewards, which sum to 100.
C10_Witness ==
    /\ CallReturned
    /\ out.config.ratio = U64(1)
    /\ out.land = U64_MAX
    /\ out.config.land_reward = U32(20)
    /\ out.config.metaverse_reward = U32(80)
    /\ out.res.val.ideal = U64_MAX
    /\ ~Fits64(ExactLandProduct)
    /\ ~Fits64(ExactMetaverseProduct)

\* C6: every Range returned by round_issuance_range (overflow paths included)
\* and every Range made by From satisfies is_valid, and is_valid holds of a
\* Range exactly when max >= ideal >= min.
C6_RangeValidity ==
    /\ (CallReturned \/ out.op = "from") => is_valid(out.res.val)
    /\ (out.op \in {"round_issuance_range", "from", "literal"} /\ ~out.res.panicked) =>
           (is_valid(out.res.val) <=>
                (NumLe(out.res.val.ideal, out.res.val.max)
                 /\ NumLe(out.res.val.min, out.res.val.ideal)))

\* A Range returned on the base-overflow path.
C6_Witness ==
    /\ CallReturned
    /\ out.config.ratio = U64_MAX
    /\ out.land = U64(2000)
    /\ out.res.val.ideal = U64(0)
    /\ is_valid(out.res.val)

C9_SetterFrame ==
    /\ config.ratio = unwrap_or(last_set.ratio, ctor.ratio)
    /\ config.land_reward = unwrap_or(last_set.land_reward, ctor.land_reward)
    /\ config.metaverse_reward = unwrap_or(last_set.metaverse_reward, ctor.metaverse_reward)

\* Only set_land_reward was called, with a percentage above 100 that differs
\* from the constructor's.
C9_Witness ==
    /\ last_set.land_reward = Some(U32(150))
    /\ ctor.land_reward = U32(20)
    /\ ~last_set.ratio.some
    /\ ~last_set.metaverse_reward.some
    /\ config = new(ctor.ratio, U32(150), ctor.metaverse_reward)

====
